---- MODULE Spec2Model ----
(***************************************************************************)
(* Model of the g3nd demo plugins ShaderGeometry (src/shader_geometry.go)  *)
(* and Skybox (src/unnamed/part_000) under the host lifecycle described by *)
(* the README (src/unnamed/part_001): package init registers each demo in  *)
(* the lookup table, the host calls Initialize when a demo is selected and *)
(* Render on every frame.                                                  *)
(*                                                                         *)
(* Units: rotations are counted in multiples of 0.005 rad (so 0.01 = 2),   *)
(* positions in tenths (so 2.2 = 22), frame time in host ticks.            *)
(***************************************************************************)
EXTENDS Integers, Sequences, FiniteSets, TLC

\* ---- bounds of the model
MaxFrames == 3
MaxDelta == 2

\* ---- program constants
PlaneStep == 2
BoxStep == 2
SphereStep == 1
GlInLength == 3
MaxVertices == 12
NumFaces == 6

Nil == "nil"
SGName == "shader.geometry"
SkyName == "skybox.sanfrancisco"
SGObject == "ShaderGeometry"
SkyObject == "Skybox"
SideBack == "SideBack"
SideFront == "SideFront"

textures == << "sanfrancisco/posx.jpg", "sanfrancisco/negx.jpg",
               "sanfrancisco/posy.jpg", "sanfrancisco/negy.jpg",
               "sanfrancisco/posz.jpg", "sanfrancisco/negz.jpg" >>

VARIABLES
    Map, initDone, hostpc, current,
    ctxControl, controlSeen, frames, rotFrames, elapsed,
    plane, box, sphere, showWireframe, showVnormal, showFnormal, rotate, mat,
    cbRotate, cbWireframe, cbVnormal, cbFnormal,
    gpuUniforms, emitted,
    sbpc, sbI, skybox, attempts, loadFailed, fatalLog

hostVars == << Map, initDone, hostpc, current >>
frameVars == << frames, rotFrames, elapsed >>
sgVars == << plane, box, sphere, showWireframe, showVnormal, showFnormal, rotate, mat >>
cbVars == << cbRotate, cbWireframe, cbVnormal, cbFnormal >>
gpuVars == << gpuUniforms, emitted >>
skyVars == << sbpc, sbI, skybox, attempts, loadFailed, fatalLog >>
vars == << hostVars, ctxControl, controlSeen, frameVars, sgVars, cbVars, gpuVars, skyVars >>

\* ---------------------------------------------------------------------------
\* Engine objects
\* ---------------------------------------------------------------------------

\* a nil *graphic.Mesh field (set = FALSE) and a mesh made by graphic.NewMesh
\* followed by SetPosition(x, 0, 0): rotation starts at zero
NilMesh == [set |-> FALSE, pos |-> << 0, 0, 0 >>, rot |-> << 0, 0, 0 >>]
NewMeshAt(x) == [set |-> TRUE, pos |-> << x, 0, 0 >>, rot |-> << 0, 0, 0 >>]

AddRotationX(m, d) == [m EXCEPT !.rot[1] = @ + d]
AddRotationY(m, d) == [m EXCEPT !.rot[2] = @ + d]
AddRotationZ(m, d) == [m EXCEPT !.rot[3] = @ + d]

NilMaterial == [set |-> FALSE, ShowWireframe |-> 0, ShowVnormal |-> 0, ShowFnormal |-> 0]
newNormalsMaterial ==
    [set |-> TRUE, ShowWireframe |-> 1, ShowVnormal |-> 1, ShowFnormal |-> 1]

\* graphic.NewMesh(geom, nil) of Skybox.Initialize: no material yet, not in the scene
NilSkybox == [set |-> FALSE, mats |-> << >>, added |-> 0]
NewSkyboxMesh == [set |-> TRUE, mats |-> << >>, added |-> 0]

\* ---------------------------------------------------------------------------
\* Geometry shader: the sequence of EmitVertex / EndPrimitive calls of main()
\* ---------------------------------------------------------------------------
\* variant: loop bound written n <= gl_in.length()
RECURSIVE WireLoop_OffByOne(_)
WireLoop_OffByOne(n) ==
    IF n <= GlInLength THEN << "EmitVertex" >> \o WireLoop_OffByOne(n + 1) ELSE << >>

RECURSIVE WireLoop(_)
WireLoop(n) ==
    IF n < GlInLength THEN << "EmitVertex" >> \o WireLoop(n + 1) ELSE << >>

RECURSIVE VnormalLoop(_)
VnormalLoop(i) ==
    IF i < GlInLength
    THEN << "EmitVertex", "EmitVertex", "EndPrimitive" >> \o VnormalLoop(i + 1)
    ELSE << >>

GSWireframe(u) ==
    IF u.ShowWireframe # 0
    THEN WireLoop(0) \o << "EmitVertex", "EndPrimitive" >>
    ELSE << >>

GSVnormal(u) ==
    IF u.ShowVnormal # 0 THEN VnormalLoop(0) ELSE << >>

GSFnormal(u) ==
    IF u.ShowFnormal # 0
    THEN << "EmitVertex", "EmitVertex", "EndPrimitive" >>
    ELSE << >>

GSMain(u) == GSWireframe(u) \o GSVnormal(u) \o GSFnormal(u)

\* NormalsMaterial.RenderSetup transfers the three uniforms to the program
RenderSetup(m) ==
    [ShowWireframe |-> m.ShowWireframe, ShowVnormal |-> m.ShowVnormal,
     ShowFnormal |-> m.ShowFnormal]

\* ---------------------------------------------------------------------------
\* Initial state: nothing registered, both demo objects zero-valued
\* ---------------------------------------------------------------------------
Init ==
    /\ Map = [n \in {} |-> Nil]
    /\ initDone = {}
    /\ hostpc = "init"
    /\ current = Nil
    /\ ctxControl = FALSE
    /\ controlSeen = FALSE
    /\ frames = 0
    /\ rotFrames = 0
    /\ elapsed = 0
    /\ plane = NilMesh
    /\ box = NilMesh
    /\ sphere = NilMesh
    /\ showWireframe = 0
    /\ showVnormal = 0
    /\ showFnormal = 0
    /\ rotate = FALSE
    /\ mat = NilMaterial
    /\ cbRotate = FALSE
    /\ cbWireframe = FALSE
    /\ cbVnormal = FALSE
    /\ cbFnormal = FALSE
    /\ gpuUniforms = RenderSetup(NilMaterial)
    /\ emitted = << >>
    /\ sbpc = "idle"
    /\ sbI = 0
    /\ skybox = NilSkybox
    /\ attempts = << >>
    /\ loadFailed = {}
    /\ fatalLog = 0

\* ---------------------------------------------------------------------------
\* Package initialisation: each init() stores its object under its name
\* ---------------------------------------------------------------------------
MapSet(m, name, obj) ==
    [n \in (DOMAIN m) \cup {name} |-> IF n = name THEN obj ELSE m[n]]

initShaderGeometry ==
    /\ hostpc = "init"
    /\ SGObject \notin initDone
    /\ Map' = MapSet(Map, SGName, SGObject)
    /\ initDone' = initDone \cup {SGObject}
    /\ UNCHANGED << hostpc, current, ctxControl, controlSeen, frameVars,
                    sgVars, cbVars, gpuVars, skyVars >>

\* variant: the key copied from the other demo
initSkybox_CopiedName ==
    /\ hostpc = "init"
    /\ SkyObject \notin initDone
    /\ Map' = MapSet(Map, SGName, SkyObject)
    /\ initDone' = initDone \cup {SkyObject}
    /\ UNCHANGED << hostpc, current, ctxControl, controlSeen, frameVars,
                    sgVars, cbVars, gpuVars, skyVars >>

initSkybox ==
    /\ hostpc = "init"
    /\ SkyObject \notin initDone
    /\ Map' = MapSet(Map, SkyName, SkyObject)
    /\ initDone' = initDone \cup {SkyObject}
    /\ UNCHANGED << hostpc, current, ctxControl, controlSeen, frameVars,
                    sgVars, cbVars, gpuVars, skyVars >>

\* main starts once every package init has run
HostStart ==
    /\ hostpc = "init"
    /\ initDone = {SGObject, SkyObject}
    /\ hostpc' = "running"
    /\ UNCHANGED << Map, initDone, current, ctxControl, controlSeen, frameVars,
                    sgVars, cbVars, gpuVars, skyVars >>

\* the host is idle between callbacks: no Skybox.Initialize in progress
HostIdle == hostpc = "running" /\ sbpc # "loop"

\* ---------------------------------------------------------------------------
\* ShaderGeometry
\* ---------------------------------------------------------------------------

\* variant: the ctx.Control == nil return placed before the meshes are created
SGInitialize_EarlyReturn(control) ==
    IF ~control
    THEN /\ UNCHANGED << mat, plane, box, sphere,
                         showWireframe, showVnormal, showFnormal, rotate >>
         /\ cbRotate' = FALSE
         /\ cbWireframe' = FALSE
         /\ cbVnormal' = FALSE
         /\ cbFnormal' = FALSE
    ELSE /\ mat' = newNormalsMaterial
         /\ plane' = NewMeshAt(-22)
         /\ box' = NewMeshAt(0)
         /\ sphere' = NewMeshAt(22)
         /\ showWireframe' = 1
         /\ showVnormal' = 1
         /\ showFnormal' = 1
         /\ rotate' = TRUE
         /\ cbRotate' = TRUE
         /\ cbWireframe' = TRUE
         /\ cbVnormal' = TRUE
         /\ cbFnormal' = TRUE

\* ShaderGeometry.Initialize(ctx); control is ctx.Control # nil
SGInitialize(control) ==
    /\ mat' = newNormalsMaterial
    /\ plane' = NewMeshAt(-22)
    /\ box' = NewMeshAt(0)
    /\ sphere' = NewMeshAt(22)
    /\ IF ~control
       THEN /\ UNCHANGED << showWireframe, showVnormal, showFnormal, rotate >>
            /\ cbRotate' = FALSE
            /\ cbWireframe' = FALSE
            /\ cbVnormal' = FALSE
            /\ cbFnormal' = FALSE
       ELSE /\ showWireframe' = 1
            /\ showVnormal' = 1
            /\ showFnormal' = 1
            /\ rotate' = TRUE
            /\ cbRotate' = TRUE
            /\ cbWireframe' = TRUE
            /\ cbVnormal' = TRUE
            /\ cbFnormal' = TRUE

\* variant: the sphere turned by the same amount as the other two meshes
SGRender_SameStep ==
    IF ~rotate
    THEN UNCHANGED << plane, box, sphere, hostpc >>
    ELSE /\ plane' = AddRotationX(plane, PlaneStep)
         /\ box' = AddRotationY(box, BoxStep)
         /\ sphere' = AddRotationZ(sphere, BoxStep)
         /\ UNCHANGED hostpc

\* ShaderGeometry.Render(ctx); a call on a nil mesh is a nil dereference
SGRender ==
    IF ~rotate
    THEN UNCHANGED << plane, box, sphere, hostpc >>
    ELSE IF ~plane.set
    THEN hostpc' = "panic" /\ UNCHANGED << plane, box, sphere >>
    ELSE IF ~box.set
    THEN /\ hostpc' = "panic"
         /\ plane' = AddRotationX(plane, PlaneStep)
         /\ UNCHANGED << box, sphere >>
    ELSE IF ~sphere.set
    THEN /\ hostpc' = "panic"
         /\ plane' = AddRotationX(plane, PlaneStep)
         /\ box' = AddRotationY(box, BoxStep)
         /\ UNCHANGED sphere
    ELSE /\ plane' = AddRotationX(plane, PlaneStep)
         /\ box' = AddRotationY(box, BoxStep)
         /\ sphere' = AddRotationZ(sphere, SphereStep)
         /\ UNCHANGED hostpc

\* the checkboxes of the "Show" group exist and the demo is the current one
ControlsActive ==
    /\ HostIdle
    /\ current = SGName
    /\ ctxControl

Toggle(v) == IF v = 0 THEN 1 ELSE 0

\* OnChange of "Rotate": the user flips the checkbox, the handler flips rotate
OnChangeRotate ==
    /\ ControlsActive
    /\ cbRotate' = ~cbRotate
    /\ rotate' = ~rotate
    /\ UNCHANGED << hostVars, ctxControl, controlSeen, frameVars, plane, box, sphere,
                    showWireframe, showVnormal, showFnormal, mat,
                    cbWireframe, cbVnormal, cbFnormal, gpuVars, skyVars >>

OnChangeWireframe ==
    /\ ControlsActive
    /\ cbWireframe' = ~cbWireframe
    /\ showWireframe' = Toggle(showWireframe)
    /\ mat' = [mat EXCEPT !.ShowWireframe = showWireframe']
    /\ UNCHANGED << hostVars, ctxControl, controlSeen, frameVars, plane, box, sphere,
                    showVnormal, showFnormal, rotate,
                    cbRotate, cbVnormal, cbFnormal, gpuVars, skyVars >>

\* variant: the handler copied from "Wireframe" with the uniform not renamed
OnChangeVnormal_CopiedUniform ==
    /\ ControlsActive
    /\ cbVnormal' = ~cbVnormal
    /\ showVnormal' = Toggle(showVnormal)
    /\ mat' = [mat EXCEPT !.ShowWireframe = showVnormal']
    /\ UNCHANGED << hostVars, ctxControl, controlSeen, frameVars, plane, box, sphere,
                    showWireframe, showFnormal, rotate,
                    cbRotate, cbWireframe, cbFnormal, gpuVars, skyVars >>

OnChangeVnormal ==
    /\ ControlsActive
    /\ cbVnormal' = ~cbVnormal
    /\ showVnormal' = Toggle(showVnormal)
    /\ mat' = [mat EXCEPT !.ShowVnormal = showVnormal']
    /\ UNCHANGED << hostVars, ctxControl, controlSeen, frameVars, plane, box, sphere,
                    showWireframe, showFnormal, rotate,
                    cbRotate, cbWireframe, cbFnormal, gpuVars, skyVars >>

OnChangeFnormal ==
    /\ ControlsActive
    /\ cbFnormal' = ~cbFnormal
    /\ showFnormal' = Toggle(showFnormal)
    /\ mat' = [mat EXCEPT !.ShowFnormal = showFnormal']
    /\ UNCHANGED << hostVars, ctxControl, controlSeen, frameVars, plane, box, sphere,
                    showWireframe, showVnormal, rotate,
                    cbRotate, cbWireframe, cbVnormal, gpuVars, skyVars >>

\* the demo is selected from the list: the host calls Initialize on the
\* object registered under the name
HostSelectShaderGeometry(control) ==
    /\ HostIdle
    /\ SGName \in DOMAIN Map
    /\ Map[SGName] = SGObject
    /\ current' = SGName
    /\ ctxControl' = control
    /\ controlSeen' = (controlSeen \/ control)
    /\ frames' = 0
    /\ rotFrames' = 0
    /\ elapsed' = 0
    /\ SGInitialize(control)
    /\ UNCHANGED << Map, initDone, hostpc, gpuVars, skyVars >>

\* one frame of the render loop on the geometry shader demo: Render, then
\* the renderer draws the meshes with the shared material
HostFrameShaderGeometry(dt) ==
    /\ HostIdle
    /\ current = SGName
    /\ Map[current] = SGObject
    /\ frames < MaxFrames
    /\ frames' = frames + 1
    /\ elapsed' = elapsed + dt
    /\ rotFrames' = IF rotate THEN rotFrames + 1 ELSE rotFrames
    /\ SGRender
    /\ IF mat.set /\ hostpc' = "running"
       THEN /\ gpuUniforms' = RenderSetup(mat)
            /\ emitted' = GSMain(gpuUniforms')
       ELSE UNCHANGED gpuVars
    /\ UNCHANGED << Map, initDone, current, ctxControl, controlSeen,
                    showWireframe, showVnormal, showFnormal, rotate, mat,
                    cbVars, skyVars >>

\* ---------------------------------------------------------------------------
\* Skybox
\* ---------------------------------------------------------------------------

\* the demo is selected: Skybox.Initialize starts, creates the box mesh
\* without material and enters the loop over the six faces
HostSelectSkybox ==
    /\ HostIdle
    /\ SkyName \in DOMAIN Map
    /\ Map[SkyName] = SkyObject
    /\ current' = SkyName
    /\ frames' = 0
    /\ elapsed' = 0
    /\ cbRotate' = FALSE
    /\ cbWireframe' = FALSE
    /\ cbVnormal' = FALSE
    /\ cbFnormal' = FALSE
    /\ skybox' = NewSkyboxMesh
    /\ sbI' = 0
    /\ sbpc' = "loop"
    /\ attempts' = << >>
    /\ loadFailed' = {}
    /\ UNCHANGED << Map, initDone, hostpc, ctxControl, controlSeen, rotFrames, sgVars,
                    gpuVars, fatalLog >>

\* variant: the material left on its default (front) side
FaceMaterial_FrontSide(i) == [tex |-> textures[i + 1], side |-> SideFront, group |-> i]

\* material.NewStandard + AddTexture(tex) + SetSide(SideBack), attached to group i
FaceMaterial(i) == [tex |-> textures[i + 1], side |-> SideBack, group |-> i]

\* variant: the error is logged and the iteration goes on
SkyboxLoadFace_GoOn(ok) ==
    /\ hostpc = "running"
    /\ sbpc = "loop"
    /\ sbI < NumFaces
    /\ attempts' = Append(attempts, textures[sbI + 1])
    /\ skybox' = [skybox EXCEPT !.mats = Append(@, FaceMaterial(sbI))]
    /\ sbI' = sbI + 1
    /\ IF ok
       THEN UNCHANGED << loadFailed, fatalLog >>
       ELSE /\ loadFailed' = loadFailed \cup {sbI}
            /\ fatalLog' = fatalLog + 1
    /\ UNCHANGED << Map, initDone, hostpc, current, ctxControl, controlSeen, frameVars,
                    sgVars, cbVars, gpuVars, sbpc >>

\* one iteration of the loop: ok is the outcome of NewTexture2DFromImage
SkyboxLoadFace(ok) ==
    /\ hostpc = "running"
    /\ sbpc = "loop"
    /\ sbI < NumFaces
    /\ attempts' = Append(attempts, textures[sbI + 1])
    /\ IF ok
       THEN /\ skybox' = [skybox EXCEPT !.mats = Append(@, FaceMaterial(sbI))]
            /\ sbI' = sbI + 1
            /\ UNCHANGED << hostpc, loadFailed, fatalLog >>
       ELSE /\ loadFailed' = loadFailed \cup {sbI}
            /\ fatalLog' = fatalLog + 1
            /\ hostpc' = "aborted"
            /\ UNCHANGED << skybox, sbI >>
    /\ UNCHANGED << Map, initDone, current, ctxControl, controlSeen, frameVars,
                    sgVars, cbVars, gpuVars, sbpc >>

\* loop exit: a.Scene().Add(skybox), Initialize returns
SkyboxAddToScene ==
    /\ hostpc = "running"
    /\ sbpc = "loop"
    /\ ~(sbI < NumFaces)
    /\ skybox' = [skybox EXCEPT !.added = @ + 1]
    /\ sbpc' = "done"
    /\ UNCHANGED << hostVars, ctxControl, controlSeen, frameVars, sgVars, cbVars,
                    gpuVars, sbI, attempts, loadFailed, fatalLog >>

\* one frame of the render loop on the skybox demo: Skybox.Render is empty
HostFrameSkybox(dt) ==
    /\ HostIdle
    /\ current = SkyName
    /\ Map[current] = SkyObject
    /\ frames < MaxFrames
    /\ frames' = frames + 1
    /\ elapsed' = elapsed + dt
    /\ UNCHANGED << hostVars, ctxControl, controlSeen, rotFrames, sgVars, cbVars,
                    gpuVars, skyVars >>

\* ---------------------------------------------------------------------------
\* Specification
\* ---------------------------------------------------------------------------
Next ==
    \/ initShaderGeometry
    \/ initSkybox
    \/ HostStart
    \/ \E control \in BOOLEAN : HostSelectShaderGeometry(control)
    \/ \E dt \in 1..MaxDelta : HostFrameShaderGeometry(dt)
    \/ OnChangeRotate
    \/ OnChangeWireframe
    \/ OnChangeVnormal
    \/ OnChangeFnormal
    \/ HostSelectSkybox
    \/ \E ok \in BOOLEAN : SkyboxLoadFace(ok)
    \/ SkyboxAddToScene
    \/ \E dt \in 1..MaxDelta : HostFrameSkybox(dt)

Spec == Init /\ [][Next]_vars

\* ---------------------------------------------------------------------------
\* Properties
\* ---------------------------------------------------------------------------
Bit(b) == IF b THEN 1 ELSE 0

RECURSIVE CountVertices(_)
CountVertices(seq) ==
    IF seq = << >> THEN 0
    ELSE Bit(Head(seq) = "EmitVertex") + CountVertices(Tail(seq))

\* lengths of the strips closed by EndPrimitive; open is the number of
\* vertices emitted since the last EndPrimitive (a trailing open strip is
\* reported as a negative length)
RECURSIVE StripLengths(_, _)
StripLengths(seq, open) ==
    IF seq = << >> THEN (IF open = 0 THEN << >> ELSE << 0 - open >>)
    ELSE IF Head(seq) = "EndPrimitive"
    THEN << open >> \o StripLengths(Tail(seq), 0)
    ELSE StripLengths(Tail(seq), open + 1)

ExpectedStrips(u) ==
    (IF u.ShowWireframe # 0 THEN << 4 >> ELSE << >>)
    \o (IF u.ShowVnormal # 0 THEN << 2, 2, 2 >> ELSE << >>)
    \o (IF u.ShowFnormal # 0 THEN << 2 >> ELSE << >>)

UniformValues == [ShowWireframe : -1..1, ShowVnormal : -1..1, ShowFnormal : -1..1]

\* C1: every Render call of the geometry shader demo finds plane, box and
\* sphere set by Initialize (no call on a nil mesh), whether ctx.Control was
\* nil or not
C1_RenderAfterInitialize ==
    /\ hostpc # "panic"
    /\ (current = SGName => plane.set /\ box.set /\ sphere.set)
    /\ (frames > 0 /\ current = SGName => mat.set)

C1_Witness ==
    /\ current = SGName
    /\ frames >= 1
    /\ ~ctxControl
    /\ plane.set /\ box.set /\ sphere.set

\* C2: when the texture of face i fails to load, the fatal error is logged
\* and the program aborts: no material for group i, no later texture loaded,
\* the skybox mesh not in the scene
C2_FatalOnTextureFailure ==
    \A i \in loadFailed :
        /\ hostpc = "aborted"
        /\ fatalLog >= 1
        /\ \A k \in 1..Len(skybox.mats) : skybox.mats[k].group # i
        /\ attempts = SubSeq(textures, 1, i + 1)
        /\ skybox.added = 0
        /\ sbpc # "done"

C2_Witness ==
    /\ loadFailed = {3}
    /\ hostpc = "aborted"
    /\ Len(skybox.mats) = 3
    /\ Len(attempts) = 4

\* C4: when all six textures load the box mesh carries exactly six
\* materials, group i with texture i of posx, negx, posy, negy, posz, negz
\* on its back side, and the mesh is added to the scene once, after the
\* sixth material
C4_FaceOrder ==
    << "sanfrancisco/posx.jpg", "sanfrancisco/negx.jpg", "sanfrancisco/posy.jpg",
       "sanfrancisco/negy.jpg", "sanfrancisco/posz.jpg", "sanfrancisco/negz.jpg" >>

C4_SixBackFaces ==
    /\ skybox.added <= 1
    /\ (skybox.added = 1 => Len(skybox.mats) = 6)
    /\ (sbpc = "loop" => skybox.added = 0)
    /\ (sbpc = "done" =>
            /\ skybox.added = 1
            /\ Len(skybox.mats) = 6
            /\ \A i \in 0..5 :
                   skybox.mats[i + 1] =
                       [tex |-> C4_FaceOrder[i + 1], side |-> SideBack, group |-> i])

C4_Witness ==
    /\ sbpc = "done"
    /\ loadFailed = {}
    /\ Len(attempts) = 6
    /\ skybox.added = 1

\* C5: with the controls shown, each uniform is 1 exactly when its checkbox
\* is checked and 0 when it is not, and an event on one checkbox changes no
\* other uniform and not the rotate flag
C5_UniformsFollowCheckboxes ==
    current = SGName /\ ctxControl =>
        /\ mat.ShowWireframe = Bit(cbWireframe)
        /\ mat.ShowVnormal = Bit(cbVnormal)
        /\ mat.ShowFnormal = Bit(cbFnormal)

C5_EventsAreIndependent ==
    /\ OnChangeWireframe =>
           /\ mat'.ShowVnormal = mat.ShowVnormal
           /\ mat'.ShowFnormal = mat.ShowFnormal
           /\ rotate' = rotate
    /\ OnChangeVnormal =>
           /\ mat'.ShowWireframe = mat.ShowWireframe
           /\ mat'.ShowFnormal = mat.ShowFnormal
           /\ rotate' = rotate
    /\ OnChangeFnormal =>
           /\ mat'.ShowWireframe = mat.ShowWireframe
           /\ mat'.ShowVnormal = mat.ShowVnormal
           /\ rotate' = rotate

C5_CheckboxUniforms ==
    [] C5_UniformsFollowCheckboxes /\ [][C5_EventsAreIndependent]_vars

C5_Witness ==
    /\ current = SGName
    /\ ctxControl
    /\ ~cbWireframe /\ mat.ShowWireframe = 0
    /\ cbVnormal /\ mat.ShowVnormal = 1
    /\ ~cbFnormal /\ mat.ShowFnormal = 0

\* C6: package initialisation registers one object per demo under its own
\* name before any Initialize or Render; the names differ, no registration
\* overwrites the other and a lookup always returns the same object
C6_Registration ==
    /\ SGName # SkyName
    /\ (hostpc = "init" =>
            /\ current = Nil
            /\ frames = 0
            /\ ~mat.set /\ ~plane.set /\ ~skybox.set)
    /\ (SGObject \in initDone => SGName \in DOMAIN Map /\ Map[SGName] = SGObject)
    /\ (SkyObject \in initDone => SkyName \in DOMAIN Map /\ Map[SkyName] = SkyObject)
    /\ (hostpc # "init" => DOMAIN Map = {SGName, SkyName})
    /\ (current # Nil => current \in DOMAIN Map)

C6_Witness ==
    /\ hostpc = "running"
    /\ current = SkyName
    /\ Map[current] = SkyObject
    /\ Map[SGName] = SGObject
    /\ mat.set

\* C7: for every combination of the three uniforms the geometry shader
\* emits at most max_vertices = 12 vertices per triangle (4 + 6 + 2), each
\* line strip closed by EndPrimitive before the next starts
C7_ShaderOutput(u, out) ==
    /\ CountVertices(out) <= MaxVertices
    /\ CountVertices(out) =
           4 * Bit(u.ShowWireframe # 0) + 6 * Bit(u.ShowVnormal # 0)
           + 2 * Bit(u.ShowFnormal # 0)
    /\ StripLengths(out, 0) = ExpectedStrips(u)

C7_VertexBudget ==
    /\ C7_ShaderOutput(gpuUniforms, emitted)
    /\ \A u \in UniformValues : C7_ShaderOutput(u, GSMain(u))

C7_Witness ==
    /\ gpuUniforms = [ShowWireframe |-> 1, ShowVnormal |-> 1, ShowFnormal |-> 1]
    /\ CountVertices(emitted) = MaxVertices
    /\ Len(emitted) = 17

\* C3 (as claimed): the rotation depends on the elapsed frame time only, so
\* a time rendered as several frames leaves the meshes turned as far as the
\* same time rendered as one frame of that delta (one Render call from the
\* freshly initialised meshes)
C3_OneFrame == << AddRotationX(NewMeshAt(-22), PlaneStep).rot,
                  AddRotationY(NewMeshAt(0), BoxStep).rot,
                  AddRotationZ(NewMeshAt(22), SphereStep).rot >>

C3_RotationFollowsElapsedTime ==
    (/\ current = SGName
     /\ frames >= 1
     /\ rotFrames = frames
     /\ elapsed \in 1..MaxDelta)
    => << plane.rot, box.rot, sphere.rot >> = C3_OneFrame

\* C8 (as claimed): once Initialize has run, each of showWireframe,
\* showVnormal, showFnormal is 0 or 1 and equals the value last set on the
\* uniform of the shared material
C8_FieldsMirrorUniforms ==
    mat.set =>
        /\ showWireframe \in {0, 1} /\ showWireframe = mat.ShowWireframe
        /\ showVnormal \in {0, 1} /\ showVnormal = mat.ShowVnormal
        /\ showFnormal \in {0, 1} /\ showFnormal = mat.ShowFnormal

\* C9: a Render call with rotate false leaves the three rotations alone;
\* with rotate true it adds 0.01 to the plane's X, 0.01 to the box's Y and
\* 0.005 to the sphere's Z rotation only; it changes no flag, uniform or
\* position.  After the Render calls since the latest Initialize, k of them
\* with rotate true, plane and box have turned k*0.01 and the sphere
\* k*0.005; while ctx.Control was nil at every Initialize so far the meshes
\* never rotate
C9_RenderCall == current = SGName /\ frames' = frames + 1

C9_RenderEffect ==
    C9_RenderCall =>
        /\ plane'.rot = (IF rotate THEN << plane.rot[1] + PlaneStep, 0, 0 >>
                                   ELSE plane.rot)
        /\ box'.rot = (IF rotate THEN << 0, box.rot[2] + BoxStep, 0 >>
                                 ELSE box.rot)
        /\ sphere'.rot = (IF rotate THEN << 0, 0, sphere.rot[3] + SphereStep >>
                                    ELSE sphere.rot)
        /\ plane'.pos = plane.pos /\ box'.pos = box.pos /\ sphere'.pos = sphere.pos
        /\ UNCHANGED << rotate, showWireframe, showVnormal, showFnormal, mat >>

C9_Accumulated ==
    /\ plane.rot = << PlaneStep * rotFrames, 0, 0 >>
    /\ box.rot = << 0, BoxStep * rotFrames, 0 >>
    /\ sphere.rot = << 0, 0, SphereStep * rotFrames >>
    /\ plane.set => plane.pos = << -22, 0, 0 >>
    /\ box.set => box.pos = << 0, 0, 0 >>
    /\ sphere.set => sphere.pos = << 22, 0, 0 >>
    /\ (~controlSeen => ~rotate /\ rotFrames = 0)

C10_InitializeStep ==
    (\E control \in BOOLEAN : HostSelectShaderGeometry(control)) =>
        /\ rotate'
        /\ showWireframe' = 1
        /\ showVnormal' = 1
        /\ showFnormal' = 1
        /\ mat' = newNormalsMaterial

C10_InitializeResets == [][C10_InitializeStep]_vars

====
